---- MODULE Spec2Model ----
(***************************************************************************)
(* Atlas web front-end: the chunked / presigned upload client              *)
(* (useServerUploadFileMutation), the configuration manager and the        *)
(* setup and admin routes that write config/config.json.                   *)
(*                                                                         *)
(* Five specifications share the variables below:                          *)
(*   UploadSpec  the browser-side upload mutation,                         *)
(*   SliceSpec   the chunk slicing of uploadFileChunked as a function,     *)
(*   Spec        the Node server process: config file, ConfigManager,      *)
(*               setup route and admin route handlers,                     *)
(*   ReloadSpec  the ConfigManager against writers outside the process,    *)
(*   AdminSpec   the admin route handlers and their callers.               *)
(***************************************************************************)
EXTENDS Integers, Sequences, FiniteSets, TLC

VARIABLES
    uploads,        \* upload-progress context: upload id -> entry
    mut,            \* per mutation call: position and locals of mutationFn
    reqLog,         \* per mutation call: the HTTP requests it has sent, in order
    invalidations,  \* per mutation call: runs of onSuccess (queryClient.invalidateQueries)
    sFile,          \* SliceSpec: the file, a sequence of bytes
    sChunkSize,     \* SliceSpec: chunkData.chunkSize
    sTotalChunks,   \* SliceSpec: chunkData.totalChunks
    sChunkNumber,   \* SliceSpec: loop variable chunkNumber
    sChunks,        \* SliceSpec: the chunks sliced so far, in loop order
    configFile,     \* config/config.json: << >> when absent, else <<document>>
    mtime,          \* stat.mtimeMs of the config file
    clock,          \* the time of the server's host, in file-timestamp ticks
    cache,          \* ConfigManager.cache: << >> for null, else <<config>>
    cacheTimestamp, \* ConfigManager.cacheTimestamp
    dirty,          \* the file was written or removed since the cache was filled
    authInstance,   \* auth.ts authInstance: "null" or "created"
    saves,          \* number of secrets drawn by saveSetupConfig so far
    users,          \* user records held by the authentication service
    req,            \* the oRPC requests in flight, one per slot
    api,            \* the calls of the upload API endpoints in flight, one per slot
    wiz,            \* the setup wizard in the browser: SetupProvider and SetupSteps state
    tests,          \* the connection tests the wizard has in flight
    adminPage       \* an admin configuration page in the browser: form and test state

uploadVars == <<uploads, mut, reqLog, invalidations>>
sliceVars == <<sFile, sChunkSize, sTotalChunks, sChunkNumber, sChunks>>
serverVars == <<configFile, mtime, clock, cache, cacheTimestamp, dirty, authInstance,
                saves, users, req>>
apiVars == <<api>>
wizardVars == <<wiz, tests>>
frontVars == <<apiVars, wizardVars, adminPage>>
vars == <<uploadVars, sliceVars, serverVars, frontVars>>

Min(a, b) == IF a <= b THEN a ELSE b

(***************************************************************************)
(* Chunk slicing: uploadFileChunked, loop body.                            *)
(***************************************************************************)

\* totalChunks as the chunked-upload endpoint is expected to report it
CeilDiv(n, d) == (n + d - 1) \div d

\* a slicing that starts every chunk one byte late
ChunkStartOffByOne(chunkNumber, chunkSize) == chunkNumber * chunkSize + 1

\* const start = chunkNumber * chunkSize
ChunkStart(chunkNumber, chunkSize) == chunkNumber * chunkSize

\* const end = Math.min(start + chunkSize, file.size)
ChunkEnd(chunkNumber, chunkSize, size) ==
    Min(ChunkStart(chunkNumber, chunkSize) + chunkSize, size)

\* Blob.slice(start, end) for start, end >= 0: both are clamped to the size,
\* and the span is max(end - start, 0) bytes long
BlobSlice(file, start, end) ==
    SubSeq(file, Min(start, Len(file)) + 1, Min(end, Len(file)))

\* const chunk = file.slice(start, end)
Chunk(file, chunkNumber, chunkSize) ==
    BlobSlice(file, ChunkStart(chunkNumber, chunkSize),
              ChunkEnd(chunkNumber, chunkSize, Len(file)))

\* Math.round(x) for x = num / den >= 0: floor(x + 1/2)
Round(num, den) == (2 * num + den) \div (2 * den)

(***************************************************************************)
(* The server process at rest, for the specifications of the browser side. *)
(***************************************************************************)

\* slots for oRPC requests that are in flight together
Requests == {"r1", "r2"}

IdleRequest ==
    [op |-> "none", guarded |-> FALSE, pc |-> "idle", caller |-> "none",
     input |-> << >>, code |-> "none", did |-> "none", adminOk |-> FALSE,
     answer |-> << >>]

\* the accounts the admin console manages
UserIds == {"u1"}
InitialUsers == [u \in UserIds |-> [role |-> "user", banned |-> FALSE]]

ServerParked ==
    /\ configFile = << >>
    /\ mtime = 0
    /\ clock = 0
    /\ cache = << >>
    /\ cacheTimestamp = 0
    /\ dirty = FALSE
    /\ authInstance = "null"
    /\ saves = 0
    /\ users = InitialUsers
    /\ req = [r \in Requests |-> IdleRequest]

SliceParked ==
    /\ sFile = << >>
    /\ sChunkSize = 1
    /\ sTotalChunks = 0
    /\ sChunkNumber = 0
    /\ sChunks = << >>

\* slots for calls of the upload API endpoints
ApiRequests == {"a1"}

IdleApi ==
    [endpoint |-> "none", pc |-> "idle", caller |-> "none", json |-> FALSE,
     params |-> {}, authOk |-> FALSE, config |-> "unchecked", status |-> 0,
     fetches |-> << >>, audit |-> << >>]

ApiParked == api = [a \in ApiRequests |-> IdleApi]

\* useState(...) of SetupProvider
InitialPostgres ==
    [host |-> "localhost", port |-> 5432, database |-> "", username |-> "",
     password |-> ""]
InitialOidc ==
    [provider |-> "discord", providerName |-> "Discord", clientId |-> "",
     clientSecret |-> "",
     authorizationUrl |-> "https://discord.com/api/oauth2/authorize",
     tokenUrl |-> "https://discord.com/api/oauth2/token",
     userInfoUrl |-> "https://discord.com/api/users/@me",
     scopes |-> <<"identify", "email">>]
InitialAtlas == [baseUrl |-> "", atlasUrl |-> "", atlasApiKey |-> ""]
InitialBranding ==
    [displayName |-> "Atlas", logo |-> "/logo.png", favicon |-> "/favicon.ico",
     primaryColor |-> "#3b82f6", backgroundImage |-> "/bg-darker.jpg"]

\* the wizard after a page load at the URL of step p: the state of
\* SetupProvider and SetupSteps as constructed, and the mount effect of the
\* step page (setCurrentStep(p), none on the welcome page); passed keeps,
\* per kind, the configurations sent in tests that succeeded
LoadedWizard(p) ==
    [currentStep |-> p,
     postgresConfig |-> InitialPostgres,
     oidcConfig |-> InitialOidc,
     atlasConfig |-> InitialAtlas,
     brandingConfig |-> InitialBranding,
     postgresTestPassed |-> FALSE,
     oidcTestPassed |-> FALSE,
     setupComplete |-> FALSE,
     setupError |-> "null",
     save |-> "idle",
     saveBody |-> << >>,
     passed |-> [postgres |-> {}, oidc |-> {}]]

WizardParked ==
    /\ wiz = LoadedWizard(0)
    /\ tests = {}

\* no admin page is open
ClosedAdminPage == [open |-> "none"]

\* the browser pages and the API endpoints at rest
FrontParked ==
    /\ ApiParked
    /\ WizardParked
    /\ adminPage = ClosedAdminPage

(***************************************************************************)
(* SliceSpec: the slicing loop of uploadFileChunked on every small file    *)
(* and chunk size, with totalChunks = ceil(file.size / chunkSize).         *)
(***************************************************************************)

MaxFileSize == 12
MaxChunkSize == 5

\* a file of n bytes; byte i is identified by its offset
FileOf(n) == [i \in 1..n |-> i]

UploadParked ==
    /\ uploads = << >>
    /\ mut = << >>
    /\ reqLog = << >>
    /\ invalidations = << >>

SliceInit ==
    /\ \E n \in 0..MaxFileSize, cs \in 1..MaxChunkSize :
          /\ sFile = FileOf(n)
          /\ sChunkSize = cs
          /\ sTotalChunks = CeilDiv(n, cs)
    /\ sChunkNumber = 0
    /\ sChunks = << >>
    /\ UploadParked
    /\ ServerParked
    /\ FrontParked

\* one iteration of: for (let chunkNumber = 0; chunkNumber < totalChunks; chunkNumber++)
SliceStep ==
    /\ sChunkNumber < sTotalChunks
    /\ sChunks' = Append(sChunks, Chunk(sFile, sChunkNumber, sChunkSize))
    /\ sChunkNumber' = sChunkNumber + 1
    /\ UNCHANGED <<sFile, sChunkSize, sTotalChunks, uploadVars, serverVars, frontVars>>

SliceNext == SliceStep

SliceSpec == SliceInit /\ [][SliceNext]_vars

RECURSIVE Concat(_)
Concat(ss) == IF ss = << >> THEN << >> ELSE Head(ss) \o Concat(Tail(ss))

BytesOf(c) == {c[i] : i \in 1..Len(c)}

\* C2: with totalChunks = ceil(size / chunkSize), the chunks sliced so far are
\* pairwise disjoint and concatenate, in index order, to the prefix of the file
\* they cover (the whole file once the loop has ended); every chunk but the
\* last has exactly chunkSize bytes and the last chunk is not empty.
C2_SlicesPartitionFile ==
    /\ Len(sChunks) = sChunkNumber
    /\ Concat(sChunks) = SubSeq(sFile, 1, Min(sChunkNumber * sChunkSize, Len(sFile)))
    /\ sChunkNumber = sTotalChunks => Concat(sChunks) = sFile
    /\ \A i, j \in 1..Len(sChunks) :
          i # j => BytesOf(sChunks[i]) \cap BytesOf(sChunks[j]) = {}
    /\ \A k \in 1..Len(sChunks) :
          /\ k < sTotalChunks => Len(sChunks[k]) = sChunkSize
          /\ k = sTotalChunks => Len(sChunks[k]) \in 1..sChunkSize

\* a file of several chunks whose last chunk is short has been sliced whole
C2_Witness ==
    /\ sTotalChunks >= 3
    /\ sChunkNumber = sTotalChunks
    /\ Len(sFile) % sChunkSize # 0
    /\ Len(sChunks[sTotalChunks]) < sChunkSize

(***************************************************************************)
(* UploadSpec: useServerUploadFileMutation (presigned version).  Each      *)
(* mutation call runs mutationFn; calls may overlap at their await points. *)
(***************************************************************************)

MaxMutations == 2
MutationIds == 1..MaxMutations

\* 1024 * 1024
MB == 1048576
\* if (fileSizeMB > 10)
ChunkedThresholdMB == 10
\* chunkSize: 1048576 in the body of /api/get-chunked-upload-url
RequestedChunkSize == 1048576
\* granularity of the xhr.upload progress events of the model
ProgressMarks == 2

FileSizes == {0, 1, ChunkedThresholdMB * MB, ChunkedThresholdMB * MB + 1}

\* chunkData.chunkSize: the size asked for, or one the upstream API chose
ChunkSizeResponses == {RequestedChunkSize, 4 * MB}

\* chunkData.totalChunks: decided by the upstream API
TotalChunksResponses(size, chunkSize) ==
    {0, CeilDiv(size, chunkSize)}

IdleMutation ==
    [pc |-> "idle", size |-> 0, chunkSize |-> 0, totalChunks |-> 0,
     chunkNumber |-> 0, loaded |-> 0, acked |-> 0, failedChunk |-> -1]

\* addUpload(entry) of the upload-progress context: a new entry under a new id
AddUpload(ups, id, entry) ==
    [u \in DOMAIN ups \cup {id} |-> IF u = id THEN entry ELSE ups[u]]

\* updateUpload(id, patch) of the upload-progress context: the patch's fields
\* replace the entry's
UpdateUpload(ups, id, patch) ==
    [ups EXCEPT ![id] = patch @@ ups[id]]

\* a threshold that sends a file of exactly 10 MB to the chunked flow
UsesChunkedFrom(size) == size >= ChunkedThresholdMB * MB

\* const fileSizeMB = file.size / (1024 * 1024); if (fileSizeMB > 10)
UsesChunked(size) == size > ChunkedThresholdMB * MB

Req(kind, chunk, lo, hi) == [kind |-> kind, chunk |-> chunk, lo |-> lo, hi |-> hi]

ChunkPut(m, k) ==
    Req("PUT", k, ChunkStart(k, m.chunkSize), ChunkEnd(k, m.chunkSize, m.size))

\* a progress that counts the chunk about to be sent as done
ChunkProgressAhead(chunkNumber, totalChunks) ==
    Round((chunkNumber + 2) * 100, totalChunks)

\* const progress = ((chunkNumber + 1) / totalChunks) * 100; Math.round(progress)
ChunkProgress(chunkNumber, totalChunks) ==
    Round((chunkNumber + 1) * 100, totalChunks)

\* const progress = (event.loaded / event.total) * 100; Math.round(progress)
DirectProgress(loaded, total) == Round(loaded * 100, total)

\* a loop that steps over a chunk
NextChunkNumberSkip(chunkNumber) == chunkNumber + 2

\* chunkNumber++
NextChunkNumber(chunkNumber) == chunkNumber + 1

\* catch (error) { updateUpload(uploadId, {status: "error", error: ...}); throw error }
\* axios errors carry the response data or message, XHR rejections do not
CatchPatch(isAxios) ==
    [status |-> "error", error |-> IF isAxios THEN "axios" ELSE "Upload failed"]

\* updateUpload(uploadId, {progress: 100, status: "completed"})
CompletedPatch == [progress |-> 100, status |-> "completed"]

UploadInit ==
    /\ uploads = << >>
    /\ mut = [id \in MutationIds |-> IdleMutation]
    /\ reqLog = [id \in MutationIds |-> << >>]
    /\ invalidations = [id \in MutationIds |-> 0]
    /\ SliceParked
    /\ ServerParked
    /\ FrontParked

Send(id, r) == reqLog' = [reqLog EXCEPT ![id] = Append(@, r)]

\* mutationFn up to its first await: addUpload, then the size test
Mutate(id, size) ==
    /\ mut[id].pc = "idle"
    /\ uploads' = AddUpload(uploads, id, [progress |-> 0, status |-> "uploading"])
    /\ IF UsesChunked(size)
          THEN /\ mut' = [mut EXCEPT ![id].pc = "getChunkedUrl", ![id].size = size]
               /\ Send(id, Req("getChunkedUrl", -1, 0, 0))
          ELSE /\ mut' = [mut EXCEPT ![id].pc = "getSimpleUrl", ![id].size = size]
               /\ Send(id, Req("getSimpleUrl", -1, 0, 0))
    /\ UNCHANGED <<invalidations, sliceVars, serverVars, frontVars>>

\* the catch block of mutationFn: the entry becomes "error", the promise rejects
Reject(id, isAxios) ==
    /\ uploads' = UpdateUpload(uploads, id, CatchPatch(isAxios))
    /\ UNCHANGED <<reqLog, invalidations, sliceVars, serverVars, frontVars>>

\* getChunkedUploadUrl resolved: uploadFileChunked starts its loop
GetChunkedUrlOk(id, chunkSize, totalChunks) ==
    /\ mut[id].pc = "getChunkedUrl"
    /\ LET m == [mut[id] EXCEPT !.chunkSize = chunkSize,
                                !.totalChunks = totalChunks, !.chunkNumber = 0]
       IN IF 0 < totalChunks
             THEN /\ mut' = [mut EXCEPT ![id] = [m EXCEPT !.pc = "put"]]
                  /\ Send(id, ChunkPut(m, 0))
             ELSE /\ mut' = [mut EXCEPT ![id] = [m EXCEPT !.pc = "complete"]]
                  /\ Send(id, Req("complete", -1, 0, 0))
    /\ UNCHANGED <<uploads, invalidations, sliceVars, serverVars, frontVars>>

GetChunkedUrlFail(id) ==
    /\ mut[id].pc = "getChunkedUrl"
    /\ mut' = [mut EXCEPT ![id].pc = "rejected"]
    /\ Reject(id, TRUE)

\* xhr.onload with a 2xx status: progress, resolve, next iteration or completion
ChunkPutOk(id) ==
    /\ mut[id].pc = "put"
    /\ LET m == mut[id]
           k == NextChunkNumber(m.chunkNumber)
       IN /\ uploads' = UpdateUpload(uploads, id,
                 [progress |-> ChunkProgress(m.chunkNumber, m.totalChunks)])
          /\ IF k < m.totalChunks
                THEN /\ mut' = [mut EXCEPT ![id].chunkNumber = k,
                                           ![id].acked = m.acked + 1]
                     /\ Send(id, ChunkPut(m, k))
                ELSE /\ mut' = [mut EXCEPT ![id].chunkNumber = k,
                                           ![id].acked = m.acked + 1,
                                           ![id].pc = "complete"]
                     /\ Send(id, Req("complete", -1, 0, 0))
    /\ UNCHANGED <<invalidations, sliceVars, serverVars, frontVars>>

\* a loop that swallows the rejection and goes on to the completion call
AfterChunkFailureSwallowed(id) ==
    /\ mut' = [mut EXCEPT ![id].pc = "complete",
                          ![id].failedChunk = mut[id].chunkNumber]
    /\ Send(id, Req("complete", -1, 0, 0))
    /\ UNCHANGED <<uploads, invalidations, sliceVars, serverVars, frontVars>>

\* the loop after a rejected chunk promise: the await throws out of
\* uploadFileChunked into the catch block of mutationFn
AfterChunkFailure(id) ==
    /\ mut' = [mut EXCEPT ![id].pc = "rejected",
                          ![id].failedChunk = mut[id].chunkNumber]
    /\ Reject(id, FALSE)

\* xhr.onload with a non-2xx status, xhr.onerror or xhr.ontimeout
ChunkPutFail(id) ==
    /\ mut[id].pc = "put"
    /\ AfterChunkFailure(id)

\* completeChunkedUpload resolved: the entry is completed, mutationFn returns
CompleteOk(id) ==
    /\ mut[id].pc = "complete"
    /\ mut' = [mut EXCEPT ![id].pc = "resolved"]
    /\ uploads' = UpdateUpload(uploads, id, CompletedPatch)
    /\ UNCHANGED <<reqLog, invalidations, sliceVars, serverVars, frontVars>>

CompleteFail(id) ==
    /\ mut[id].pc = "complete"
    /\ mut' = [mut EXCEPT ![id].pc = "rejected"]
    /\ Reject(id, TRUE)

\* getSimpleUploadUrl resolved: uploadFileDirect sends the file
GetSimpleUrlOk(id) ==
    /\ mut[id].pc = "getSimpleUrl"
    /\ mut' = [mut EXCEPT ![id].pc = "post"]
    /\ Send(id, Req("POST", -1, 0, mut[id].size))
    /\ UNCHANGED <<uploads, invalidations, sliceVars, serverVars, frontVars>>

GetSimpleUrlFail(id) ==
    /\ mut[id].pc = "getSimpleUrl"
    /\ mut' = [mut EXCEPT ![id].pc = "rejected"]
    /\ Reject(id, TRUE)

\* xhr.upload.onprogress: loaded never decreases and never exceeds total;
\* lengthComputable is false exactly when total is 0
UploadProgressEvent(id, loaded) ==
    /\ mut[id].pc = "post"
    /\ mut[id].loaded <= loaded
    /\ loaded <= mut[id].size
    /\ mut' = [mut EXCEPT ![id].loaded = loaded]
    /\ uploads' = IF mut[id].size # 0
                     THEN UpdateUpload(uploads, id,
                              [progress |-> DirectProgress(loaded, mut[id].size)])
                     ELSE uploads
    /\ UNCHANGED <<reqLog, invalidations, sliceVars, serverVars, frontVars>>

\* xhr.onload with a 2xx status: resolve, then the entry is completed
DirectOk(id) ==
    /\ mut[id].pc = "post"
    /\ mut' = [mut EXCEPT ![id].pc = "resolved"]
    /\ uploads' = UpdateUpload(uploads, id, CompletedPatch)
    /\ UNCHANGED <<reqLog, invalidations, sliceVars, serverVars, frontVars>>

DirectFail(id) ==
    /\ mut[id].pc = "post"
    /\ mut' = [mut EXCEPT ![id].pc = "rejected"]
    /\ Reject(id, FALSE)

\* useMutation: onSuccess runs once mutationFn has resolved
OnSuccess(id) ==
    /\ mut[id].pc = "resolved"
    /\ mut' = [mut EXCEPT ![id].pc = "notified"]
    /\ invalidations' = [invalidations EXCEPT ![id] = @ + 1]
    /\ UNCHANGED <<uploads, reqLog, sliceVars, serverVars, frontVars>>

UploadNext ==
    \E id \in MutationIds :
        \/ \E size \in FileSizes : Mutate(id, size)
        \/ \E cs \in ChunkSizeResponses :
              \E n \in TotalChunksResponses(mut[id].size, cs) : GetChunkedUrlOk(id, cs, n)
        \/ GetChunkedUrlFail(id)
        \/ ChunkPutOk(id)
        \/ ChunkPutFail(id)
        \/ CompleteOk(id)
        \/ CompleteFail(id)
        \/ GetSimpleUrlOk(id)
        \/ GetSimpleUrlFail(id)
        \/ \E q \in 0..ProgressMarks :
              UploadProgressEvent(id, (mut[id].size * q) \div ProgressMarks)
        \/ DirectOk(id)
        \/ DirectFail(id)
        \/ OnSuccess(id)

UploadSpec == UploadInit /\ [][UploadNext]_vars

Puts(id) == SelectSeq(reqLog[id], LAMBDA r : r.kind = "PUT")
Completes(id) == SelectSeq(reqLog[id], LAMBDA r : r.kind = "complete")
Last(q) == q[Len(q)]

\* C1: the chunk PUTs of an upload are sent one at a time in the order
\* 0, 1, ..., totalChunks - 1, PUT k + 1 only after PUT k was answered 2xx; the
\* completion endpoint is called only after all totalChunks PUTs succeeded,
\* and then exactly once.
C1_SequentialChunksThenComplete ==
    \A id \in MutationIds :
        LET m == mut[id]
            puts == Puts(id)
        IN /\ \A i \in 1..Len(puts) : puts[i].chunk = i - 1
           /\ Len(puts) <= m.totalChunks
           /\ m.acked <= Len(puts)
           /\ Len(puts) <= m.acked + 1
           /\ Len(puts) = m.acked + 1 =>
                 \/ m.pc = "put"
                 \/ m.failedChunk = m.acked
           /\ Len(Completes(id)) <= 1
           /\ Completes(id) # << >> =>
                 /\ m.acked = m.totalChunks
                 /\ Last(reqLog[id]).kind = "complete"
           /\ (m.chunkSize > 0 /\ m.acked = m.totalChunks) =>
                 Len(Completes(id)) = 1

\* an upload of several chunks went through all its PUTs and the completion call
C1_Witness ==
    \E id \in MutationIds :
        /\ mut[id].totalChunks >= 3
        /\ mut[id].acked = mut[id].totalChunks
        /\ mut[id].pc = "resolved"
        /\ Last(reqLog[id]).kind = "complete"

\* C3: after a failed chunk PUT the upload sends nothing more (no later chunk,
\* no retry, no completion call), its entry is in status "error", and the
\* mutation is rejected, so onSuccess has not run.
C3_ChunkFailureStopsUpload ==
    \A id \in MutationIds :
        mut[id].failedChunk # -1 =>
            /\ Last(reqLog[id]) = ChunkPut(mut[id], mut[id].failedChunk)
            /\ Len(Puts(id)) = mut[id].failedChunk + 1
            /\ Completes(id) = << >>
            /\ uploads[id].status = "error"
            /\ mut[id].pc = "rejected"
            /\ invalidations[id] = 0

\* a chunk failed after earlier chunks of the same upload had succeeded
C3_Witness ==
    \E id \in MutationIds :
        /\ mut[id].failedChunk >= 1
        /\ mut[id].failedChunk + 1 < mut[id].totalChunks
        /\ uploads[id].status = "error"

C4_EntryOk(e) ==
    /\ e.status \in {"uploading", "completed", "error"}
    /\ e.progress \in 0..100
    /\ e.status = "completed" => e.progress = 100

C4_Step ==
    /\ DOMAIN uploads \subseteq DOMAIN uploads'
    /\ \A id \in DOMAIN uploads' :
          /\ C4_EntryOk(uploads'[id])
          /\ id \notin DOMAIN uploads =>
                /\ uploads'[id].status = "uploading"
                /\ uploads'[id].progress = 0
          /\ id \in DOMAIN uploads =>
                /\ uploads[id].progress <= uploads'[id].progress
                /\ uploads[id].status # "uploading" =>
                      uploads'[id].status = uploads[id].status
                /\ (uploads[id].status # "completed"
                      /\ uploads'[id].status = "completed") =>
                      /\ mut[id].pc \in {"complete", "post"}
                      /\ mut'[id].pc = "resolved"
                      /\ mut[id].pc = "complete" <=> UsesChunked(mut[id].size)

\* C4: an upload entry starts as "uploading" with progress 0; its progress
\* never decreases and stays in 0..100; its status changes at most once, to
\* "completed" or to "error"; "completed" comes with progress 100 and only
\* with the success of the final response (complete-upload for chunked uploads).
C4_EntryLifecycle == [][C4_Step]_vars

\* a chunked upload whose entry went from partial progress to completed
C4_Witness ==
    \E id \in DOMAIN uploads :
        /\ uploads[id].status = "completed"
        /\ uploads[id].progress = 100
        /\ mut[id].totalChunks >= 3
        /\ \E other \in DOMAIN uploads :
              /\ uploads[other].status = "error"
              /\ uploads[other].progress \in 1..99

\* the requests of the two flows
ChunkedKinds == {"getChunkedUrl", "PUT", "complete"}
SingleKinds == {"getSimpleUrl", "POST"}
KindsSent(id) == {reqLog[id][i].kind : i \in 1..Len(reqLog[id])}

\* C20: a started upload mutation sends requests of the chunked flow only
\* when file.size > 10 * 1024 * 1024 and of the single presigned POST flow
\* only otherwise (a file of exactly 10485760 bytes included); it starts
\* exactly one of the two flows.
C20_ChunkedExactlyAboveTenMB ==
    \A id \in MutationIds :
        mut[id].pc # "idle" =>
            /\ reqLog[id] # << >>
            /\ mut[id].size > 10 * 1024 * 1024 =>
                  /\ reqLog[id][1].kind = "getChunkedUrl"
                  /\ KindsSent(id) \subseteq ChunkedKinds
            /\ mut[id].size <= 10 * 1024 * 1024 =>
                  /\ reqLog[id][1].kind = "getSimpleUrl"
                  /\ KindsSent(id) \subseteq SingleKinds

\* a file of exactly 10485760 bytes went up in one POST while a file one
\* byte larger went up in chunks
C20_Witness ==
    \E id, other \in MutationIds :
        /\ mut[id].size = 10485760
        /\ KindsSent(id) = SingleKinds
        /\ mut[other].size = 10485761
        /\ KindsSent(other) = ChunkedKinds

(***************************************************************************)
(* Configuration documents.  A JavaScript object is a function from its    *)
(* keys to its values; configFile holds the JSON document of the file:     *)
(* JSON.stringify followed by JSON.parse gives back an object of strings,  *)
(* numbers and arrays of strings unchanged.                                *)
(***************************************************************************)

\* the keys of f that are in K: z.object strips the keys its shape does not name
Restrict(f, K) == [k \in (DOMAIN f) \cap K |-> f[k]]

\* { ...a, ...b }
Spread(a, b) ==
    [k \in (DOMAIN a) \cup (DOMAIN b) |-> IF k \in DOMAIN b THEN b[k] ELSE a[k]]

PostgresKeys == {"host", "port", "database", "username", "password"}
SetupOidcKeys == {"provider", "providerName", "clientId", "clientSecret",
                  "authorizationUrl", "tokenUrl", "userInfoUrl"}
AtlasKeys == {"baseUrl", "atlasUrl", "atlasApiKey"}
SetupBrandingKeys == {"displayName", "logo", "primaryColor", "backgroundImage"}

\* the input shapes of the admin route (part_000); scopes and favicon are optional
AuthInputKeys == SetupOidcKeys \cup {"scopes"}
BrandingInputKeys == SetupBrandingKeys \cup {"favicon"}

\* setupConfigSchema applied to the request body
SetupParse(input) ==
    [postgresConfig |-> Restrict(input.postgresConfig, PostgresKeys),
     oidcConfig |-> Restrict(input.oidcConfig, SetupOidcKeys),
     atlasConfig |-> Restrict(input.atlasConfig, AtlasKeys),
     brandingConfig |-> Restrict(input.brandingConfig, SetupBrandingKeys)]

\* a URL is <<scheme, rest>>; the two anchored replaces of the handlers:
\* .replace(/^https:\/\//, "wss://").replace(/^http:\/\//, "ws://")
WebsocketUrl(url) ==
    IF url[1] = "https://" THEN <<"wss://", url[2]>>
    ELSE IF url[1] = "http://" THEN <<"ws://", url[2]>>
    ELSE url

\* packageJson.version
PackageVersion == "packageJson.version"

PostgresA ==
    [host |-> "localhost", port |-> 5432, database |-> "atlas",
     username |-> "atlas", password |-> "pw-a"]
PostgresB ==
    [host |-> "db.internal", port |-> 5433, database |-> "atlas2",
     username |-> "admin", password |-> "pw-b"]

OidcA ==
    [provider |-> "discord", providerName |-> "Discord", clientId |-> "cid-a",
     clientSecret |-> "cs-a",
     authorizationUrl |-> "https://discord.com/api/oauth2/authorize",
     tokenUrl |-> "https://discord.com/api/oauth2/token",
     userInfoUrl |-> "https://discord.com/api/users/@me",
     scopes |-> <<"identify", "email">>]
OidcB ==
    [provider |-> "github", providerName |-> "GitHub", clientId |-> "cid-b",
     clientSecret |-> "cs-b",
     authorizationUrl |-> "https://github.com/login/oauth/authorize",
     tokenUrl |-> "https://github.com/login/oauth/access_token",
     userInfoUrl |-> "https://api.github.com/user",
     scopes |-> <<"read:user", "user:email">>]

AtlasA ==
    [baseUrl |-> "https://panel.example", atlasUrl |-> <<"https://", "atlas.example">>,
     atlasApiKey |-> "key-a"]
AtlasB ==
    [baseUrl |-> "http://panel.local", atlasUrl |-> <<"http://", "atlas.local">>,
     atlasApiKey |-> "key-b"]

BrandingA ==
    [displayName |-> "Atlas", logo |-> "/logo.png", favicon |-> "/favicon.ico",
     primaryColor |-> "#3b82f6", backgroundImage |-> "/bg-darker.jpg"]
\* logo and backgroundImage are optional in the admin form
BrandingB ==
    [displayName |-> "Mineplay", favicon |-> "/mineplay.ico", primaryColor |-> "#FF6A3D"]

\* what handleFinish sends: the wizard state's four sections
WizardA ==
    [postgresConfig |-> PostgresA, oidcConfig |-> OidcA,
     atlasConfig |-> AtlasA, brandingConfig |-> BrandingA]
WizardB ==
    [postgresConfig |-> PostgresB, oidcConfig |-> OidcB,
     atlasConfig |-> AtlasB, brandingConfig |-> Spread(BrandingA, BrandingB)]
WizardInputs == {WizardA, WizardB}

ConfigWriters == {"updateDatabaseConfig", "updateAuthConfig", "updateAtlasConfig",
                  "updateBrandingConfig"}
ReadOps == {"getConfig"}
TestOps == {"testDatabaseConnection", "testOidcConnection", "testAtlasConnection"}
UserOps == {"updateUserRole", "banUser", "unbanUser", "deleteUser"}
\* the handlers the guarded admin route exports, listUsers aside
AdminOps == ReadOps \cup ConfigWriters \cup TestOps \cup UserOps
\* the handlers admin.route.ts exports
UnguardedOps == ReadOps \cup ConfigWriters \cup TestOps

\* the request bodies the admin pages send
AdminInputs(op) ==
    CASE op = "updateDatabaseConfig" -> {PostgresB}
      [] op = "updateAuthConfig" -> {OidcB}
      [] op = "updateAtlasConfig" -> {AtlasB}
      [] op = "updateBrandingConfig" -> {BrandingB}
      [] op = "updateUserRole" -> {[userId |-> u, role |-> "admin"] : u \in UserIds}
      [] op \in UserOps \ {"updateUserRole"} -> {[userId |-> u] : u \in UserIds}
      [] OTHER -> {<< >>}

\* the section of the document an update operation assigns
SectionOf(op) ==
    CASE op = "updateDatabaseConfig" -> "postgresConfig"
      [] op = "updateAuthConfig" -> "oidcConfig"
      [] op = "updateAtlasConfig" -> "atlasConfig"
      [] op = "updateBrandingConfig" -> "brandingConfig"

\* the .input(z.object(...)) of an update operation; the unguarded
\* admin.route.ts has no favicon in its branding shape
AdminParse(op, guarded, input) ==
    CASE op = "updateDatabaseConfig" -> Restrict(input, PostgresKeys)
      [] op = "updateAuthConfig" -> Restrict(input, AuthInputKeys)
      [] op = "updateAtlasConfig" -> Restrict(input, AtlasKeys)
      [] op = "updateBrandingConfig" ->
            Restrict(input, IF guarded THEN BrandingInputKeys ELSE SetupBrandingKeys)

\* an update that replaces its section by the input
NewSectionReplacing(op, old, input) ==
    IF op = "updateAtlasConfig"
       THEN Spread(input, [websocketUrl |-> WebsocketUrl(input.atlasUrl)])
       ELSE input

\* config.<section> = { ...config.<section>, ...input [, websocketUrl] }
NewSection(op, old, input) ==
    IF op = "updateAtlasConfig"
       THEN Spread(Spread(old, input), [websocketUrl |-> WebsocketUrl(input.atlasUrl)])
       ELSE Spread(old, input)

\* the document an update operation writes back
UpdatedConfig(op, config, input) ==
    Spread(config,
           [s \in {SectionOf(op)} |->
               NewSection(op, IF s \in DOMAIN config THEN config[s] ELSE << >>, input)])

\* a save that leaves out the completedAt stamp
SaveDocumentUnstamped(input, secret, now) ==
    LET parsed == SetupParse(input)
    IN Spread(parsed,
              [oidcConfig |-> Spread(parsed.oidcConfig, [secret |-> secret]),
               version |-> PackageVersion])

\* configWithTimestamp of saveSetupConfig
SaveDocument(input, secret, now) ==
    LET parsed == SetupParse(input)
    IN Spread(parsed,
              [oidcConfig |-> Spread(parsed.oidcConfig, [secret |-> secret]),
               atlasConfig |-> Spread(parsed.atlasConfig,
                                      [websocketUrl |-> WebsocketUrl(parsed.atlasConfig.atlasUrl)]),
               completedAt |-> now,
               version |-> PackageVersion])

\* JSON.parse succeeds on the text of the file
Parses(doc) == "garbage" \notin DOMAIN doc

(***************************************************************************)
(* ConfigManager (config-manager.ts) and the auth proxy (auth.ts).         *)
(***************************************************************************)

MaxClock == 1
MaxSaves == 2

\* a cache that is returned whatever the file's mtime
CacheHitAlways == cache # << >>

\* if (this.cache && stat.mtimeMs <= this.cacheTimestamp) return this.cache
CacheHit == cache # << >> /\ mtime <= cacheTimestamp

\* loadConfig reads and parses the file and refreshes the cache
Reloads == configFile # << >> /\ ~CacheHit /\ Parses(configFile[1])

\* the value loadConfig() returns in the current state; << >> stands for null
LoadConfigResult ==
    IF configFile = << >> THEN << >>
    ELSE IF CacheHit THEN cache
    ELSE IF Parses(configFile[1]) THEN configFile
    ELSE << >>

\* the effect of loadConfig() on the manager
LoadConfig ==
    /\ cache' = IF Reloads THEN configFile ELSE cache
    /\ cacheTimestamp' = IF Reloads THEN mtime ELSE cacheTimestamp
    /\ dirty' = IF Reloads THEN FALSE ELSE dirty

\* an invalidateCache that forgets to drop the cache
InvalidateCacheKept == UNCHANGED <<cache, cacheTimestamp, dirty>>

\* invalidateCache()
InvalidateCache ==
    /\ cache' = << >>
    /\ cacheTimestamp' = 0
    /\ dirty' = FALSE

\* isSetupCompleted(): config?.completedAt != null
IsSetupCompleted ==
    /\ LoadConfigResult # << >>
    /\ "completedAt" \in DOMAIN LoadConfigResult[1]

\* a write whose document was derived from a read taken before an await:
\* the section the handler assigned is new, the rest is the file as it was
\* when the request arrived
WriteConfigOverStale(doc) ==
    /\ configFile' =
          IF configFile = << >> THEN <<doc>>
          ELSE LET stale == SaveDocument(WizardA, <<"random", 1>>, 0)
               IN <<[k \in DOMAIN doc |->
                       IF k \in DOMAIN configFile[1] /\ doc[k] = configFile[1][k]
                             /\ k \in DOMAIN stale
                          THEN stale[k] ELSE doc[k]]>>
    /\ mtime' = clock

\* fs.writeFileSync(CONFIG_FILE, JSON.stringify(config, null, 2), "utf-8")
WriteConfig(doc) ==
    /\ configFile' = <<doc>>
    /\ mtime' = clock

\* getSetupStatus: isCompleted is true whenever config/config.json exists and
\* parses as JSON; completedAt is copied to the answer but not consulted
GetSetupStatus ==
    IF configFile = << >> THEN [isCompleted |-> FALSE, config |-> << >>]
    ELSE IF ~Parses(configFile[1]) THEN [isCompleted |-> FALSE, config |-> << >>]
    ELSE [isCompleted |-> TRUE,
          config |-> <<Restrict(configFile[1], {"completedAt", "version"})>>]

\* createAuth() throws "Setup not completed" unless both sections are configured
CanCreateAuth ==
    /\ LoadConfigResult # << >>
    /\ "atlasConfig" \in DOMAIN LoadConfigResult[1]
    /\ "oidcConfig" \in DOMAIN LoadConfigResult[1]

\* a property of auth can be read: the instance exists or can be created
AuthAvailable == authInstance = "created" \/ CanCreateAuth

\* the get trap of the auth proxy: if (!authInstance) authInstance = createAuth()
AuthGet ==
    IF authInstance = "created"
       THEN UNCHANGED <<authInstance, cache, cacheTimestamp, dirty>>
       ELSE /\ LoadConfig
            /\ authInstance' = IF CanCreateAuth THEN "created" ELSE "null"

\* the host's clock moves on by one file-timestamp tick
Tick ==
    /\ clock < MaxClock
    /\ clock' = clock + 1
    /\ UNCHANGED <<configFile, mtime, cache, cacheTimestamp, dirty, authInstance, saves,
                   users, req, uploadVars, sliceVars, frontVars>>

\* configManager.getConfig() called by code of the process outside the handlers
\* (the upload routes, the oRPC link, the database module)
GetConfig ==
    /\ LoadConfig
    /\ UNCHANGED <<configFile, mtime, clock, authInstance, saves, users, req,
                   uploadVars, sliceVars, frontVars>>

(***************************************************************************)
(* oRPC handlers.  A handler runs without interruption from one await to   *)
(* the next; each action below is one such stretch.                        *)
(***************************************************************************)

Callers == {"anon", "member", "admin"}

Free(r) == req[r].pc \in {"idle", "done"}

\* the handler's promise settles with this code
Done(q, code) == [q EXCEPT !.pc = "done", !.code = code, !.input = << >>]

NewRequest(op, guarded, caller, input, pc) ==
    [IdleRequest EXCEPT !.op = op, !.guarded = guarded, !.caller = caller,
                        !.input = input, !.pc = pc]

\* a saveSetupConfig request arrives; the handler has no session check
ReceiveSave(r, input) ==
    /\ Free(r)
    /\ req' = [req EXCEPT ![r] = NewRequest("saveSetupConfig", FALSE, "anon", input, "handler")]
    /\ UNCHANGED <<configFile, mtime, clock, cache, cacheTimestamp, dirty, authInstance,
                   saves, users, uploadVars, sliceVars, frontVars>>

\* saveSetupConfig up to await reconnectDatabase(): the file is written with a
\* fresh secret, the cache invalidated and the auth instance reset
SaveWrite(r) ==
    /\ req[r].op = "saveSetupConfig"
    /\ req[r].pc = "handler"
    /\ saves < MaxSaves
    /\ WriteConfig(SaveDocument(req[r].input, <<"random", saves + 1>>, clock))
    /\ InvalidateCache
    /\ authInstance' = "null"
    /\ saves' = saves + 1
    /\ req' = [req EXCEPT ![r].pc = "reconnect", ![r].did = "write", ![r].input = << >>]
    /\ UNCHANGED <<clock, users, uploadVars, sliceVars, frontVars>>

\* reconnectDatabase() resolved: the new client was built from getPostgresConfig()
ReconnectOk(r) ==
    /\ req[r].pc = "reconnect"
    /\ LoadConfig
    /\ req' = [req EXCEPT ![r] = IF req[r].op = "saveSetupConfig"
                                    THEN [req[r] EXCEPT !.pc = "migrate"]
                                    ELSE Done(req[r], "OK")]
    /\ UNCHANGED <<configFile, mtime, clock, authInstance, saves, users,
                   uploadVars, sliceVars, frontVars>>

\* reconnectDatabase() rejected (closing the old client failed): the catch
\* block rethrows INTERNAL_ERROR
ReconnectFail(r) ==
    /\ req[r].pc = "reconnect"
    /\ req' = [req EXCEPT ![r] = Done(req[r], "INTERNAL_ERROR")]
    /\ UNCHANGED <<configFile, mtime, clock, cache, cacheTimestamp, dirty, authInstance,
                   saves, users, uploadVars, sliceVars, frontVars>>

\* migrate() resolved: saveSetupConfig returns success
MigrateOk(r) ==
    /\ req[r].pc = "migrate"
    /\ req' = [req EXCEPT ![r] = Done(req[r], "OK")]
    /\ UNCHANGED <<configFile, mtime, clock, cache, cacheTimestamp, dirty, authInstance,
                   saves, users, uploadVars, sliceVars, frontVars>>

\* migrate() rejected: the catch block rethrows INTERNAL_ERROR
MigrateFail(r) ==
    /\ req[r].pc = "migrate"
    /\ req' = [req EXCEPT ![r] = Done(req[r], "INTERNAL_ERROR")]
    /\ UNCHANGED <<configFile, mtime, clock, cache, cacheTimestamp, dirty, authInstance,
                   saves, users, uploadVars, sliceVars, frontVars>>

\* the try block of an update operation, entered by request q in slot r:
\* NOT_FOUND and parse errors are rethrown as INTERNAL_ERROR by its catch
UpdateHandler(r, q) ==
    IF configFile = << >> \/ ~Parses(configFile[1])
       THEN /\ req' = [req EXCEPT ![r] = Done(q, "INTERNAL_ERROR")]
            /\ UNCHANGED <<configFile, mtime, cache, cacheTimestamp, dirty, authInstance>>
       ELSE /\ WriteConfig(UpdatedConfig(q.op, configFile[1],
                                         AdminParse(q.op, q.guarded, q.input)))
            /\ InvalidateCache
            /\ authInstance' = IF q.op = "updateAuthConfig" THEN "null" ELSE authInstance
            /\ req' = [req EXCEPT ![r] =
                          IF q.op = "updateDatabaseConfig"
                             THEN [q EXCEPT !.pc = "reconnect", !.did = "write",
                                            !.input = << >>]
                             ELSE [Done(q, "OK") EXCEPT !.did = "write"]]

\* a request to a handler of part_000 arrives: requireAdmin runs up to
\* await auth.api.getSession(); reading auth.api may throw out of the handler
ReceiveGuarded(r, op, caller, input) ==
    /\ Free(r)
    /\ AuthGet
    /\ req' = [req EXCEPT ![r] =
                  IF AuthAvailable
                     THEN NewRequest(op, TRUE, caller, input, "getSession")
                     ELSE Done(NewRequest(op, TRUE, caller, input, "getSession"),
                               "INTERNAL_SERVER_ERROR")]
    /\ UNCHANGED <<configFile, mtime, clock, saves, users, uploadVars, sliceVars, frontVars>>

\* getSession resolved: without a user UNAUTHORIZED is thrown, else
\* auth.api.listUsers is called inside the try whose catch throws FORBIDDEN
SessionResult(r) ==
    /\ req[r].pc = "getSession"
    /\ IF req[r].caller = "anon"
          THEN /\ req' = [req EXCEPT ![r] = Done(req[r], "UNAUTHORIZED")]
               /\ UNCHANGED <<authInstance, cache, cacheTimestamp, dirty>>
          ELSE /\ AuthGet
               /\ req' = [req EXCEPT ![r] =
                             IF AuthAvailable
                                THEN [req[r] EXCEPT !.pc = "listUsers"]
                                ELSE Done(req[r], "FORBIDDEN")]
    /\ UNCHANGED <<configFile, mtime, clock, saves, users, uploadVars, sliceVars, frontVars>>

\* listUsers rejected: requireAdmin throws FORBIDDEN
ListUsersDenied(r) ==
    /\ req[r].pc = "listUsers"
    /\ req[r].caller # "admin"
    /\ req' = [req EXCEPT ![r] = Done(req[r], "FORBIDDEN")]
    /\ UNCHANGED <<configFile, mtime, clock, cache, cacheTimestamp, dirty, authInstance,
                   saves, users, uploadVars, sliceVars, frontVars>>

\* listUsers resolved: requireAdmin returns and the try block of an update
\* operation runs
GuardedUpdate(r) ==
    /\ req[r].pc = "listUsers"
    /\ req[r].caller = "admin"
    /\ req[r].op \in ConfigWriters
    /\ UpdateHandler(r, [req[r] EXCEPT !.adminOk = TRUE])
    /\ UNCHANGED <<clock, saves, users, uploadVars, sliceVars, frontVars>>

ServerInit ==
    /\ ServerParked
    /\ UploadParked
    /\ SliceParked
    /\ FrontParked

Next ==
    \/ Tick
    \/ GetConfig
    \/ \E r \in Requests :
          \/ \E input \in WizardInputs : ReceiveSave(r, input)
          \/ SaveWrite(r)
          \/ ReconnectOk(r)
          \/ ReconnectFail(r)
          \/ MigrateOk(r)
          \/ MigrateFail(r)
          \/ \E op \in ConfigWriters : \E input \in AdminInputs(op) :
                ReceiveGuarded(r, op, "admin", input)
          \/ SessionResult(r)
          \/ GuardedUpdate(r)

Spec == ServerInit /\ [][Next]_vars

\* the step in which request r writes the config file
Writes(r) == req[r].did = "none" /\ req'[r].did = "write"

\* every setting of the request body is in the document with the same value
HoldsEverySetting(doc, input) ==
    \A s \in DOMAIN input :
        /\ s \in DOMAIN doc
        /\ \A k \in DOMAIN input[s] :
              /\ k \in DOMAIN doc[s]
              /\ doc[s][k] = input[s][k]

\* C5: the config file saveSetupConfig writes (and a successful call leaves
\* in place) holds every setting the wizard sent, with the same value:
\* all fields of postgresConfig, oidcConfig including scopes, atlasConfig and
\* brandingConfig including favicon.
C5_SaveKeepsEverySetting ==
    [][\A r \in Requests :
          (req[r].op = "saveSetupConfig" /\ Writes(r)) =>
              HoldsEverySetting(configFile'[1], req[r].input)]_vars

\* C6: whenever the config file exists in the server process, which is after
\* a config-writing operation wrote it, getConfig() returns the content of
\* the file, at every point between the steps of concurrent requests.
C6_GetConfigReturnsLastWritten ==
    configFile # << >> => LoadConfigResult = configFile

\* an update wrote the file in the tick in which the cache had been filled,
\* and a later getConfig() has loaded the new content
C6_Witness ==
    /\ configFile # << >>
    /\ mtime = 0
    /\ cache = configFile
    /\ \E r \in Requests :
          /\ req[r].op \in ConfigWriters
          /\ req[r].did = "write"

C8_Frame(r) ==
    LET op == req[r].op
        sec == SectionOf(op)
        old == configFile[1]
        new == configFile'[1]
        input == AdminParse(op, req[r].guarded, req[r].input)
        derived == IF op = "updateAtlasConfig" THEN {"websocketUrl"} ELSE {}
    IN /\ configFile' # << >>
       /\ DOMAIN new = DOMAIN old \cup {sec}
       /\ \A k \in DOMAIN old \ {sec} : new[k] = old[k]
       /\ "completedAt" \in DOMAIN old =>
             /\ new.completedAt = old.completedAt
             /\ new.version = old.version
       /\ sec \in DOMAIN old =>
             /\ DOMAIN new[sec] = DOMAIN old[sec] \cup DOMAIN input \cup derived
             /\ \A k \in DOMAIN old[sec] \ (DOMAIN input \cup derived) :
                   new[sec][k] = old[sec][k]
       /\ \A k \in DOMAIN input : new[sec][k] = input[k]
       /\ op = "updateAtlasConfig" =>
             new[sec].websocketUrl = WebsocketUrl(input.atlasUrl)

\* C8: an admin update operation changes only its own section of the config
\* file: the fields of its input (and websocketUrl for updateAtlasConfig);
\* every other field of the section (oidcConfig.secret among them), every
\* other section, completedAt and version stay as they were; an update that
\* does not write leaves the file as it was.
C8_UpdatesChangeOnlyTheirSection ==
    [][\A r \in Requests :
          (req[r].op \in ConfigWriters /\ req'[r] # req[r]) =>
              IF Writes(r) THEN C8_Frame(r)
              ELSE configFile' = configFile]_vars

\* updateAuthConfig has replaced the provider settings of a saved
\* configuration that still holds its secret
C8_Witness ==
    /\ configFile # << >>
    /\ \E r \in Requests :
          /\ req[r].op = "updateAuthConfig"
          /\ req[r].did = "write"
    /\ configFile[1].oidcConfig.clientId = "cid-b"
    /\ configFile[1].oidcConfig.secret = <<"random", 1>>
    /\ configFile[1].brandingConfig.displayName = "Atlas"

\* C9: once a config file with completedAt exists, a saveSetupConfig call
\* leaves the file as it is, oidcConfig.secret and completedAt included.
C9_SetupIsFirstRunOnly ==
    [][\A r \in Requests :
          (/\ configFile # << >>
           /\ "completedAt" \in DOMAIN configFile[1]
           /\ req[r].op = "saveSetupConfig"
           /\ req'[r] # req[r]) => configFile' = configFile]_vars

\* C15: when the first saveSetupConfig call fails with INTERNAL_ERROR after
\* its write (the reconnect or the migration was rejected), getSetupStatus
\* still answers isCompleted = false and the config file is absent as before.
C15_FailedSaveLeavesSetupOpen ==
    [][\A r \in Requests :
          (/\ req[r].op = "saveSetupConfig"
           /\ req[r].pc \in {"reconnect", "migrate"}
           /\ saves = 1
           /\ req'[r].pc = "done"
           /\ req'[r].code = "INTERNAL_ERROR")
          => (/\ ~GetSetupStatus'.isCompleted
              /\ configFile' = << >>)]_vars

\* C21: whatever saveSetupConfig and admin update calls have run, completed
\* or failed or still under way, the config file, if it exists, holds
\* completedAt and version, and getSetupStatus().isCompleted equals
\* configManager.isSetupCompleted().
C21_FileIsStampedAndStatusAgrees ==
    /\ configFile # << >> =>
          {"completedAt", "version"} \subseteq DOMAIN configFile[1]
    /\ GetSetupStatus.isCompleted = IsSetupCompleted

\* a save failed after its write and an admin update has rewritten the file
C21_Witness ==
    /\ configFile # << >>
    /\ GetSetupStatus.isCompleted
    /\ \E r, q \in Requests :
          /\ req[r].op = "saveSetupConfig"
          /\ req[r].pc = "done"
          /\ req[r].code = "INTERNAL_ERROR"
          /\ req[q].op \in ConfigWriters
          /\ req[q].pc = "done"
          /\ req[q].did = "write"

(***************************************************************************)
(* ReloadSpec: loadConfig() against writers of config/config.json that do  *)
(* not call invalidateCache(): another process, an editor, a deployment.   *)
(***************************************************************************)

MaxMtime == 3

\* a configuration as saveSetupConfig leaves it
SavedDocument == SaveDocument(WizardA, <<"random", 1>>, 0)

\* the contents a writer puts into the file; the last one is not JSON
ExternalDocuments ==
    {SaveDocument(w, <<"random", 1>>, 0) : w \in WizardInputs}
        \cup {[garbage |-> TRUE]}

\* the file is written or re-created; fs.statSync will report mtimeMs = t
ExternalWrite(doc, t) ==
    /\ configFile' = <<doc>>
    /\ mtime' = t
    /\ dirty' = TRUE
    /\ UNCHANGED <<clock, cache, cacheTimestamp, authInstance, saves, users, req,
                   uploadVars, sliceVars, frontVars>>

\* the file is removed; fs.existsSync will report false
ExternalDelete ==
    /\ configFile # << >>
    /\ configFile' = << >>
    /\ mtime' = 0
    /\ dirty' = TRUE
    /\ UNCHANGED <<clock, cache, cacheTimestamp, authInstance, saves, users, req,
                   uploadVars, sliceVars, frontVars>>

ReloadInit ==
    /\ ServerParked
    /\ UploadParked
    /\ SliceParked
    /\ FrontParked

ReloadNext ==
    \/ GetConfig
    \/ \E doc \in ExternalDocuments : \E t \in 0..MaxMtime : ExternalWrite(doc, t)
    \/ ExternalDelete

ReloadSpec == ReloadInit /\ [][ReloadNext]_vars

\* C7 as stated: without invalidateCache, after any writes, deletions and
\* re-creations of the file by any writer, getConfig() returns the parsed
\* current content whenever the file exists and parses, and null whenever
\* the file does not exist.
C7_AlwaysCurrentContent ==
    /\ configFile = << >> => LoadConfigResult = << >>
    /\ (configFile # << >> /\ Parses(configFile[1])) => LoadConfigResult = configFile

\* C7: without invalidateCache, getConfig() returns null whenever the file
\* does not exist, and the parsed current content whenever the file exists
\* and parses and nothing is cached, or the file was not written since the
\* cache was filled, or the file's mtime is greater than the cached
\* timestamp; a file whose mtime is not greater than the cached timestamp
\* is answered from the cache.
C7_CurrentContentWhenMtimeIsNewer ==
    /\ configFile = << >> => LoadConfigResult = << >>
    /\ (/\ configFile # << >>
        /\ Parses(configFile[1])
        /\ (cache = << >> \/ ~dirty \/ mtime > cacheTimestamp)) =>
            LoadConfigResult = configFile
    /\ (configFile # << >> /\ cache # << >> /\ mtime <= cacheTimestamp) =>
            LoadConfigResult = cache

\* the file was rewritten with other content and a newer mtime while an
\* earlier load is cached, and getConfig() answers with the file
C7_Witness ==
    /\ dirty
    /\ cache # << >>
    /\ configFile # << >>
    /\ Parses(configFile[1])
    /\ configFile # cache
    /\ mtime > cacheTimestamp
    /\ LoadConfigResult = configFile

(***************************************************************************)
(* AdminSpec: the handlers of the admin route in both variants, the        *)
(* guarded one of part_000 and the one of admin.route.ts that router.ts    *)
(* mounts, called by anonymous visitors, members and administrators.       *)
(***************************************************************************)

AdminRequests == {"r1"}

\* the try block of getConfig: the file is read and parsed
ReadHandler(r, q) ==
    req' = [req EXCEPT ![r] =
               IF configFile = << >> \/ ~Parses(configFile[1])
                  THEN Done(q, "INTERNAL_ERROR")
                  ELSE [Done(q, "OK") EXCEPT !.did = "read"]]

\* the try block of a test*Connection handler up to its first await: a
\* connection to the host of the input is opened
TestHandler(r, q) ==
    req' = [req EXCEPT ![r] = [q EXCEPT !.pc = "connect", !.did = "connect",
                                        !.input = << >>]]

\* the connection attempt settled: success true or false is returned
TestResult(r) ==
    /\ req[r].pc = "connect"
    /\ req' = [req EXCEPT ![r] = Done(req[r], "OK")]
    /\ UNCHANGED <<configFile, mtime, clock, cache, cacheTimestamp, dirty, authInstance,
                   saves, users, uploadVars, sliceVars, frontVars>>

\* listUsers resolved: requireAdmin returns and getConfig reads the file
GuardedRead(r) ==
    /\ req[r].pc = "listUsers"
    /\ req[r].caller = "admin"
    /\ req[r].op \in ReadOps
    /\ ReadHandler(r, [req[r] EXCEPT !.adminOk = TRUE])
    /\ UNCHANGED <<configFile, mtime, clock, cache, cacheTimestamp, dirty, authInstance,
                   saves, users, uploadVars, sliceVars, frontVars>>

\* listUsers resolved: requireAdmin returns and a test*Connection handler connects
GuardedTest(r) ==
    /\ req[r].pc = "listUsers"
    /\ req[r].caller = "admin"
    /\ req[r].op \in TestOps
    /\ TestHandler(r, [req[r] EXCEPT !.adminOk = TRUE])
    /\ UNCHANGED <<configFile, mtime, clock, cache, cacheTimestamp, dirty, authInstance,
                   saves, users, uploadVars, sliceVars, frontVars>>

\* listUsers resolved: requireAdmin returns and a user operation calls
\* auth.api.setRole / banUser / unbanUser / removeUser inside its try
GuardedUserOp(r) ==
    /\ req[r].pc = "listUsers"
    /\ req[r].caller = "admin"
    /\ req[r].op \in UserOps
    /\ AuthGet
    /\ req' = [req EXCEPT ![r] =
                  IF AuthAvailable
                     THEN [req[r] EXCEPT !.pc = "authApi", !.adminOk = TRUE]
                     ELSE Done([req[r] EXCEPT !.adminOk = TRUE], "INTERNAL_ERROR")]
    /\ UNCHANGED <<configFile, mtime, clock, saves, users, uploadVars, sliceVars, frontVars>>

\* the user records after the authentication service ran the operation
ApplyUserOp(op, input, us) ==
    CASE op = "updateUserRole" -> [us EXCEPT ![input.userId].role = input.role]
      [] op = "banUser" -> [us EXCEPT ![input.userId].banned = TRUE]
      [] op = "unbanUser" -> [us EXCEPT ![input.userId].banned = FALSE]
      [] op = "deleteUser" -> [u \in (DOMAIN us) \ {input.userId} |-> us[u]]

\* the auth API call resolved: the handler returns success
UserOpOk(r) ==
    /\ req[r].pc = "authApi"
    /\ req[r].input.userId \in DOMAIN users
    /\ users' = ApplyUserOp(req[r].op, req[r].input, users)
    /\ req' = [req EXCEPT ![r] = [Done(req[r], "OK") EXCEPT !.did = "authMutation"]]
    /\ UNCHANGED <<configFile, mtime, clock, cache, cacheTimestamp, dirty, authInstance,
                   saves, uploadVars, sliceVars, frontVars>>

\* the auth API call rejected: the catch block throws INTERNAL_ERROR
UserOpFail(r) ==
    /\ req[r].pc = "authApi"
    /\ req' = [req EXCEPT ![r] = Done(req[r], "INTERNAL_ERROR")]
    /\ UNCHANGED <<configFile, mtime, clock, cache, cacheTimestamp, dirty, authInstance,
                   saves, users, uploadVars, sliceVars, frontVars>>

\* a request to a handler of admin.route.ts arrives: the handler's try block
\* runs at once, whoever calls
Unguarded(r, op, caller, input) ==
    /\ Free(r)
    /\ LET q == NewRequest(op, FALSE, caller, input, "handler")
       IN IF op \in ConfigWriters
             THEN UpdateHandler(r, q)
             ELSE /\ IF op \in ReadOps THEN ReadHandler(r, q) ELSE TestHandler(r, q)
                  /\ UNCHANGED <<configFile, mtime, cache, cacheTimestamp, dirty,
                                 authInstance>>
    /\ UNCHANGED <<clock, saves, users, uploadVars, sliceVars, frontVars>>

\* the server after the setup wizard ran
AdminInit ==
    /\ configFile = <<SavedDocument>>
    /\ mtime = 0
    /\ clock = 0
    /\ cache = << >>
    /\ cacheTimestamp = 0
    /\ dirty = FALSE
    /\ authInstance = "null"
    /\ saves = 1
    /\ users = InitialUsers
    /\ req = [r \in Requests |-> IdleRequest]
    /\ UploadParked
    /\ SliceParked
    /\ FrontParked

AdminNext ==
    \/ GetConfig
    \/ ExternalDelete
    \/ \E r \in AdminRequests :
          \/ \E op \in AdminOps : \E caller \in Callers : \E input \in AdminInputs(op) :
                ReceiveGuarded(r, op, caller, input)
          \/ \E op \in UnguardedOps : \E caller \in Callers : \E input \in AdminInputs(op) :
                Unguarded(r, op, caller, input)
          \/ SessionResult(r)
          \/ ListUsersDenied(r)
          \/ GuardedUpdate(r)
          \/ GuardedRead(r)
          \/ GuardedTest(r)
          \/ GuardedUserOp(r)
          \/ ReconnectOk(r)
          \/ ReconnectFail(r)
          \/ TestResult(r)
          \/ UserOpOk(r)
          \/ UserOpFail(r)

AdminSpec == AdminInit /\ [][AdminNext]_vars

\* C10: an admin handler writes the config file, opens a connection or
\* changes user records only after requireAdmin returned; the call of a
\* visitor without a session user ends with UNAUTHORIZED and the call of a
\* member who cannot list users with FORBIDDEN, having done none of these.
C10_NothingUnlessRequireAdminReturned ==
    \A r \in Requests :
        req[r].op \in AdminOps =>
            /\ req[r].did \in {"write", "connect", "authMutation"} =>
                  /\ req[r].caller = "admin"
                  /\ req[r].guarded => req[r].adminOk
            /\ (req[r].pc = "done" /\ req[r].caller = "anon") =>
                  req[r].code = "UNAUTHORIZED"
            /\ (req[r].pc = "done" /\ req[r].caller = "member") =>
                  req[r].code = "FORBIDDEN"

\* C16: when config/config.json does not exist, getConfig and each update
\* operation of the admin route fail with NOT_FOUND (in the guarded variant,
\* once requireAdmin has returned).
C16_MissingFileIsNotFound ==
    [][\A r \in AdminRequests :
          (/\ configFile = << >>
           /\ req[r].pc \in {"idle", "done", "listUsers"}
           /\ req'[r] # req[r]
           /\ req'[r].op \in ReadOps \cup ConfigWriters
           /\ req'[r].pc = "done"
           /\ req'[r].guarded => req'[r].adminOk)
          => req'[r].code = "NOT_FOUND"]_vars

(***************************************************************************)
(* ConcurrentSpec: two admin update requests in one server process, each   *)
(* slot serving one request, interleaved at the handlers' await points     *)
(* (getSession, listUsers, reconnectDatabase).                             *)
(***************************************************************************)

\* a request arrives at a slot that has served none
ConcurrentReceive(r, op, guarded) ==
    /\ req[r].pc = "idle"
    /\ \E input \in AdminInputs(op) :
          IF guarded THEN ReceiveGuarded(r, op, "admin", input)
                     ELSE Unguarded(r, op, "admin", input)

ConcurrentInit == AdminInit

ConcurrentNext ==
    \E r \in Requests :
        \/ \E op \in ConfigWriters : \E guarded \in BOOLEAN :
              ConcurrentReceive(r, op, guarded)
        \/ SessionResult(r)
        \/ GuardedUpdate(r)
        \/ ReconnectOk(r)
        \/ ReconnectFail(r)

ConcurrentSpec == ConcurrentInit /\ [][ConcurrentNext]_vars

\* request r has returned after writing its section
Returned(r) ==
    /\ req[r].op \in ConfigWriters
    /\ req[r].pc = "done"
    /\ req[r].did = "write"

\* the file holds the section request r assigned: the saved section with
\* the request's input spread over it
HoldsSectionOf(r) ==
    LET op == req[r].op
        sec == SectionOf(op)
        saved == SaveDocument(WizardA, <<"random", 1>>, 0)
    IN \E input \in AdminInputs(op) :
          /\ configFile # << >>
          /\ sec \in DOMAIN configFile[1]
          /\ configFile[1][sec] =
                NewSection(op, saved[sec], AdminParse(op, req[r].guarded, input))
          /\ configFile[1][sec] # saved[sec]

\* C22: when two admin updates of different sections have both returned,
\* however their steps interleaved, the config file holds the section
\* written by each of them.
C22_NoLostUpdate ==
    \A r, q \in Requests :
        (/\ r # q
         /\ Returned(r)
         /\ Returned(q)
         /\ SectionOf(req[r].op) # SectionOf(req[q].op))
        => HoldsSectionOf(r) /\ HoldsSectionOf(q)

\* updateDatabaseConfig in one slot and updateBrandingConfig in the other
\* have both written and returned, and the file holds both sections
C22_Witness ==
    /\ req["r1"].op = "updateDatabaseConfig"
    /\ req["r2"].op = "updateBrandingConfig"
    /\ req["r1"].guarded
    /\ req["r2"].guarded
    /\ Returned("r1")
    /\ Returned("r2")
    /\ req["r1"].code = "OK"
    /\ HoldsSectionOf("r1")
    /\ HoldsSectionOf("r2")

(***************************************************************************)
(* SetupSpec: the connection tests of the setup route, called while the    *)
(* wizard's save is under way, after it, and after the file was replaced   *)
(* or removed by hand.                                                     *)
(***************************************************************************)

SetupTestOps == {"testOidcConnection", "testPostgresConnection", "testAtlasConnection"}

\* what each test names in its FORBIDDEN message
TestSubject(op) ==
    CASE op = "testOidcConnection" -> "OIDC"
      [] op = "testPostgresConnection" -> "database"
      [] op = "testAtlasConnection" -> "Atlas"

\* message of the ORPCError FORBIDDEN the tests throw
CompletedMessage(op) ==
    <<"Setup has already been completed.", "Cannot test", TestSubject(op), "connection.">>

\* a check that never finds the setup completed
SetupCompletedNever(file) == FALSE

\* the check at the head of each test: the file exists and its completedAt is set
SetupCompleted(file) ==
    /\ file # << >>
    /\ "completedAt" \in DOMAIN file[1]

\* the input of each test, taken from the wizard's sections
SetupTestInput(op, w) ==
    CASE op = "testOidcConnection" ->
            Restrict(w.oidcConfig, {"provider", "authorizationUrl", "tokenUrl",
                                    "userInfoUrl", "clientId"})
      [] op = "testPostgresConnection" -> w.postgresConfig
      [] op = "testAtlasConnection" ->
            [baseUrl |-> w.atlasConfig.baseUrl, apiKey |-> w.atlasConfig.atlasApiKey]

\* a test request arrives and its handler runs up to its first await: the
\* catch block turns a JSON.parse error and the FORBIDDEN into success: false
SetupTest(r, op, input) ==
    /\ Free(r)
    /\ LET q == NewRequest(op, FALSE, "anon", input, "handler")
       IN req' = [req EXCEPT ![r] =
             IF configFile # << >> /\ ~Parses(configFile[1])
                THEN [Done(q, "OK") EXCEPT
                         !.answer = <<[success |-> FALSE, message |-> <<"SyntaxError">>]>>]
             ELSE IF SetupCompleted(configFile)
                THEN [Done(q, "OK") EXCEPT
                         !.answer = <<[success |-> FALSE, message |-> CompletedMessage(op)]>>]
             ELSE [q EXCEPT !.pc = "connect", !.did = "connect", !.input = << >>]]
    /\ UNCHANGED <<configFile, mtime, clock, cache, cacheTimestamp, dirty, authInstance,
                   saves, users, uploadVars, sliceVars, frontVars>>

\* the connection attempt settled: success: true, or success: false with the
\* error's message
SetupTestSettled(r, ok) ==
    /\ req[r].pc = "connect"
    /\ req[r].op \in SetupTestOps
    /\ req' = [req EXCEPT ![r] =
          [Done(req[r], "OK") EXCEPT
              !.answer = <<[success |-> ok,
                            message |-> IF ok THEN <<"successful">>
                                              ELSE <<"connection error">>]>>]]
    /\ UNCHANGED <<configFile, mtime, clock, cache, cacheTimestamp, dirty, authInstance,
                   saves, users, uploadVars, sliceVars, frontVars>>

SetupInit == ServerInit

SetupNext ==
    \/ \E input \in WizardInputs : ReceiveSave("r1", input)
    \/ SaveWrite("r1")
    \/ ReconnectOk("r1")
    \/ ReconnectFail("r1")
    \/ MigrateOk("r1")
    \/ MigrateFail("r1")
    \/ \E doc \in ExternalDocuments : ExternalWrite(doc, clock)
    \/ ExternalDelete
    \/ \E op \in SetupTestOps : \E w \in WizardInputs :
          SetupTest("r2", op, SetupTestInput(op, w))
    \/ \E ok \in BOOLEAN : SetupTestSettled("r2", ok)

SetupSpec == SetupInit /\ [][SetupNext]_vars

\* the message says that setup has already been completed
SaysAlreadyCompleted(message) ==
    /\ message # << >>
    /\ message[1] = "Setup has already been completed."

\* C17: a setup-route test called while the config file holds completedAt
\* opens no database connection and sends no HTTP request, and it returns
\* success = false with a message saying that setup has already been completed.
C17_NoTestsAfterCompletion ==
    [][\A r \in Requests :
          (/\ req'[r] # req[r]
           /\ req[r].pc \in {"idle", "done"}
           /\ req'[r].op \in SetupTestOps
           /\ configFile # << >>
           /\ "completedAt" \in DOMAIN configFile[1])
          => (/\ req'[r].did = "none"
              /\ req'[r].pc = "done"
              /\ req'[r].answer # << >>
              /\ ~req'[r].answer[1].success
              /\ SaysAlreadyCompleted(req'[r].answer[1].message))]_vars

\* a test was refused after the wizard's save had written the file
C17_Witness ==
    /\ configFile # << >>
    /\ "completedAt" \in DOMAIN configFile[1]
    /\ saves >= 1
    /\ \E r \in Requests :
          /\ req[r].op \in SetupTestOps
          /\ req[r].pc = "done"
          /\ req[r].did = "none"
          /\ req[r].answer = <<[success |-> FALSE, message |-> CompletedMessage(req[r].op)]>>

(***************************************************************************)
(* ApiSpec: the server routes /api/get-upload-url,                         *)
(* /api/get-chunked-upload-url, /api/complete-upload and                   *)
(* /api/template-upload.  A field of a call keeps what the call has seen   *)
(* and sent: authOk (auth.api could be read), config (the result of the    *)
(* Atlas configuration check), fetches (the requests sent to the Atlas     *)
(* API, with the configuration read when each was built) and audit (the    *)
(* entries passed to AuditService.logAction).                              *)
(***************************************************************************)

ApiEndpoints == {"get-upload-url", "get-chunked-upload-url", "complete-upload",
                 "template-upload"}

\* the parameters an endpoint refuses to work without
RequiredParams(e) ==
    CASE e = "get-upload-url" -> {"serverId", "path"}
      [] e = "get-chunked-upload-url" -> {"serverId", "path", "totalSize"}
      [] e = "complete-upload" -> {"serverId", "uploadId"}
      [] e = "template-upload" -> {"path"}

\* the body useServerUploadFileMutation and the template upload send, as
\* the set of its truthy parameters: uploadFileChunked completes with path ""
ClientBody(e) ==
    [json |-> TRUE,
     params |-> IF e = "complete-upload" THEN {"serverId", "uploadId"}
                                         ELSE RequiredParams(e) \cup {"path"}]

\* request bodies (for template-upload: query strings): the client's, one
\* with and one without the optional path, one with a required parameter
\* missing or falsy, one that is not JSON
ApiBodies(e) ==
    {ClientBody(e), [json |-> TRUE, params |-> RequiredParams(e)],
     [json |-> TRUE, params |-> RequiredParams(e) \cup {"path"}]}
        \cup {[json |-> TRUE, params |-> RequiredParams(e) \ {p}] : p \in RequiredParams(e)}
        \cup {[json |-> FALSE, params |-> {}]}

ApiFree(a) == api[a].pc \in {"idle", "done"}

\* return new Response(..., { status })
Respond(c, status) == [c EXCEPT !.pc = "done", !.status = status]

\* configManager.getAtlasConfig()?.atlasUrl is truthy
HasAtlasUrl ==
    /\ LoadConfigResult # << >>
    /\ "atlasConfig" \in DOMAIN LoadConfigResult[1]
    /\ "atlasUrl" \in DOMAIN LoadConfigResult[1].atlasConfig

\* configManager.getAtlasConfig()?.atlasApiKey is truthy
HasAtlasKey ==
    /\ LoadConfigResult # << >>
    /\ "atlasConfig" \in DOMAIN LoadConfigResult[1]
    /\ "atlasApiKey" \in DOMAIN LoadConfigResult[1].atlasConfig

\* a configuration check that lets every call pass
AtlasConfiguredAlways == TRUE

\* !(!atlasBaseUrl || !atlasApiKey)
AtlasConfigured == HasAtlasUrl /\ HasAtlasKey

\* the parameter check found everything it asks for
ParamsPresent(c) == RequiredParams(c.endpoint) \subseteq c.params

\* the first request an endpoint sends to the Atlas API
FirstFetch(e) ==
    CASE e = "get-upload-url" -> "files/upload/presign"
      [] e = "get-chunked-upload-url" -> "files/upload/start/presign"
      [] e = "complete-upload" -> "files/upload/complete"
      [] e = "template-upload" -> "templates/files/upload/presign"

\* fetch(url, { headers: { Authorization: `Bearer ${key}` } })
Fetch(c, url, base, key) ==
    [c EXCEPT !.fetches = Append(@, [url |-> url, base |-> base, key |-> key])]

\* from the parameter check to the first fetch
CheckAndFetch(c) ==
    IF ~ParamsPresent(c) THEN Respond(c, 400)
    ELSE IF ~AtlasConfigured THEN Respond([c EXCEPT !.config = "missing"], 500)
    ELSE [Fetch([c EXCEPT !.config = "found"], FirstFetch(c.endpoint),
                HasAtlasUrl, HasAtlasKey)
             EXCEPT !.pc = IF c.endpoint = "template-upload" THEN "presign" ELSE "fetch"]

\* the effect of CheckAndFetch on the manager: getAtlasConfig() is called
\* only after the parameter check
CheckLoads(c) ==
    IF ParamsPresent(c) THEN LoadConfig ELSE UNCHANGED <<cache, cacheTimestamp, dirty>>

\* a request arrives: the route reads auth.api and awaits getSession; when
\* the auth instance cannot be created the route throws
ApiReceive(a, e, caller, body) ==
    /\ ApiFree(a)
    /\ AuthGet
    /\ LET c == [IdleApi EXCEPT !.endpoint = e, !.caller = caller, !.json = body.json,
                                !.params = body.params, !.authOk = AuthAvailable]
       IN api' = [api EXCEPT ![a] = IF AuthAvailable
                                       THEN [c EXCEPT !.pc = "getSession"]
                                       ELSE Respond(c, 500)]
    /\ UNCHANGED <<configFile, mtime, clock, saves, users, req, uploadVars, sliceVars, wizardVars, adminPage>>

\* getSession resolved: 401 without a session; the template route goes on
\* to its checks, the others await request.json()
ApiSessionResult(a) ==
    /\ api[a].pc = "getSession"
    /\ IF api[a].caller = "anon"
          THEN /\ api' = [api EXCEPT ![a] = Respond(api[a], 401)]
               /\ UNCHANGED <<cache, cacheTimestamp, dirty>>
          ELSE IF api[a].endpoint = "template-upload"
                  THEN /\ api' = [api EXCEPT ![a] = CheckAndFetch(api[a])]
                       /\ CheckLoads(api[a])
                  ELSE /\ api' = [api EXCEPT ![a].pc = "json"]
                       /\ UNCHANGED <<cache, cacheTimestamp, dirty>>
    /\ UNCHANGED <<configFile, mtime, clock, authInstance, saves, users, req,
                   uploadVars, sliceVars, wizardVars, adminPage>>

\* request.json() settled: a body that is not JSON throws into the catch
\* block (500), else the checks run
ApiBody(a) ==
    /\ api[a].pc = "json"
    /\ IF ~api[a].json
          THEN /\ api' = [api EXCEPT ![a] = Respond(api[a], 500)]
               /\ UNCHANGED <<cache, cacheTimestamp, dirty>>
          ELSE /\ api' = [api EXCEPT ![a] = CheckAndFetch(api[a])]
               /\ CheckLoads(api[a])
    /\ UNCHANGED <<configFile, mtime, clock, authInstance, saves, users, req,
                   uploadVars, sliceVars, wizardVars, adminPage>>

\* the presign request of the template route settled, ok or not: the file
\* is streamed to the presigned or to the direct upload URL, with the API
\* key read again from the configuration
ApiPresignSettled(a, ok) ==
    /\ api[a].pc = "presign"
    /\ LoadConfig
    /\ api' = [api EXCEPT ![a] =
                  [Fetch(api[a], IF ok THEN "presigned uploadPath"
                                       ELSE "templates/files/upload",
                         api[a].fetches[1].base, HasAtlasKey)
                      EXCEPT !.pc = "fetch"]]
    /\ UNCHANGED <<configFile, mtime, clock, authInstance, saves, users, req,
                   uploadVars, sliceVars, wizardVars, adminPage>>

\* the routes that write the audit log
Audited(c) == c.endpoint \in {"complete-upload", "template-upload"}

\* the Atlas API answered ok
ApiAtlasOk(a) ==
    /\ api[a].pc = "fetch"
    /\ api' = [api EXCEPT ![a] =
                  IF Audited(api[a]) /\ "path" \in api[a].params
                     THEN [api[a] EXCEPT !.pc = "logSuccess"]
                     ELSE Respond(api[a], 200)]
    /\ UNCHANGED <<serverVars, uploadVars, sliceVars, wizardVars, adminPage>>

\* the Atlas API answered with an error or the fetch failed: the catch block
ApiAtlasFail(a) ==
    /\ api[a].pc = "fetch"
    /\ api' = [api EXCEPT ![a] =
                  IF /\ Audited(api[a])
                     /\ "path" \in api[a].params
                     /\ RequiredParams(api[a].endpoint) \subseteq api[a].params
                     THEN [api[a] EXCEPT !.pc = "logFailure"]
                     ELSE Respond(api[a], 500)]
    /\ UNCHANGED <<serverVars, uploadVars, sliceVars, wizardVars, adminPage>>

\* the action the route names in its audit entries
AuditAction(e) ==
    IF e = "complete-upload" THEN "uploadServerFile" ELSE "uploadTemplateFile"

\* AuditService.logAction(entry) resolved with the entry recorded
LogAction(c, success) ==
    [c EXCEPT !.audit = Append(@, [action |-> AuditAction(c.endpoint),
                                   success |-> success])]

\* await AuditService.logAction(...) resolved and the route responds
ApiLogged(a) ==
    /\ api[a].pc \in {"logSuccess", "logFailure"}
    /\ api' = [api EXCEPT ![a] =
                  IF api[a].pc = "logSuccess"
                     THEN Respond(LogAction(api[a], TRUE), 200)
                     ELSE Respond(LogAction(api[a], FALSE), 500)]
    /\ UNCHANGED <<serverVars, uploadVars, sliceVars, wizardVars, adminPage>>

\* the server before or after the setup wizard ran
ApiInit ==
    /\ configFile \in {<< >>, <<SavedDocument>>}
    /\ mtime = 0
    /\ clock = 0
    /\ cache = << >>
    /\ cacheTimestamp = 0
    /\ dirty = FALSE
    /\ authInstance = "null"
    /\ saves = IF configFile = << >> THEN 0 ELSE 1
    /\ users = InitialUsers
    /\ req = [r \in Requests |-> IdleRequest]
    /\ UploadParked
    /\ SliceParked
    /\ FrontParked

ApiNext ==
    \/ ExternalDelete
    \/ \E a \in ApiRequests :
          \/ \E e \in ApiEndpoints : \E caller \in Callers : \E body \in ApiBodies(e) :
                ApiReceive(a, e, caller, body)
          \/ ApiSessionResult(a)
          \/ ApiBody(a)
          \/ \E ok \in BOOLEAN : ApiPresignSettled(a, ok)
          \/ ApiAtlasOk(a)
          \/ ApiAtlasFail(a)
          \/ ApiLogged(a)

ApiSpec == ApiInit /\ [][ApiNext]_vars

\* the call has a session
HasSession(c) == c.caller # "anon"

\* no request goes to the Atlas API unless a session exists, the required
\* parameters are present and the Atlas URL and API key were configured when
\* the request was built
NoFetchUnlessChecked(c) ==
    c.fetches # << >> =>
        /\ HasSession(c)
        /\ ParamsPresent(c)
        /\ c.fetches[1].base
        /\ c.fetches[1].key

C19_CompletionsAreAudited ==
    \A a \in ApiRequests :
        (/\ api[a].endpoint = "complete-upload"
         /\ api[a].pc = "done"
         /\ api[a].json
         /\ api[a].params = ClientBody("complete-upload").params
         /\ api[a].fetches # << >>)
        => api[a].audit = <<[action |-> "uploadServerFile",
                             success |-> api[a].status = 200]>>

(***************************************************************************)
(* WizardSpec: the setup wizard in the browser.  SetupProvider holds the   *)
(* wizard state, SetupSteps the navigation and the Finish button, the      *)
(* step pages the forms and the connection tests.                          *)
(***************************************************************************)

\* steps.length - 1
LastStep == 4
MaxInFlight == 2

TestKinds == {"postgres", "oidc"}

\* the step whose page holds the form of a kind
PageOf(kind) == IF kind = "postgres" THEN 1 ELSE 2

\* what the onChange handlers of the forms pass to update*Config
WizardEdits(kind) ==
    IF kind = "postgres"
       THEN {[host |-> "localhost"], [host |-> "db.internal"], [database |-> "atlas"],
             [username |-> "atlas"], [password |-> "pw-a"]}
       ELSE {[clientId |-> "cid-a"], [clientId |-> "cid-b"], [clientSecret |-> "cs-a"]}

ConfigOf(w, kind) == IF kind = "postgres" THEN w.postgresConfig ELSE w.oidcConfig
PassedOf(w, kind) == IF kind = "postgres" THEN w.postgresTestPassed ELSE w.oidcTestPassed

\* updatePostgresConfig / updateOIDCConfig: merge and reset the flag
UpdateConfig(w, kind, patch) ==
    IF kind = "postgres"
       THEN [w EXCEPT !.postgresConfig = Spread(@, patch), !.postgresTestPassed = FALSE]
       ELSE [w EXCEPT !.oidcConfig = Spread(@, patch), !.oidcTestPassed = FALSE]

\* setPostgresTestPassed / setOIDCTestPassed
SetTestPassed(w, kind, passed) ==
    IF kind = "postgres"
       THEN [w EXCEPT !.postgresTestPassed = passed]
       ELSE [w EXCEPT !.oidcTestPassed = passed]

\* databaseSchema / oidcSchema accept the form values
FormValid(kind, values) ==
    IF kind = "postgres"
       THEN /\ values.host # "" /\ values.database # ""
            /\ values.username # "" /\ values.password # ""
            /\ values.port >= 1 /\ values.port <= 65535
       ELSE /\ values.provider # "" /\ values.providerName # ""
            /\ values.clientId # "" /\ values.clientSecret # ""

\* the body handleTest passes to the test mutation
TestPayload(kind, values) ==
    IF kind = "postgres"
       THEN Restrict(values, PostgresKeys)
       ELSE Restrict(values, {"provider", "authorizationUrl", "tokenUrl", "userInfoUrl",
                              "clientId"})

\* canProceedToStep
CanProceedToStep(w, step) ==
    IF step <= 1 THEN TRUE
    ELSE IF step = 2 THEN w.postgresTestPassed
    ELSE w.postgresTestPassed /\ w.oidcTestPassed

\* the step pages and the navigation buttons are rendered
StepsShown(w) == ~w.setupComplete /\ w.setupError = "null"

\* unmounting a step page: its mutation observer is gone, its requests are not
Unmounted(ts) == {[t EXCEPT !.live = FALSE] : t \in ts}

\* a field of the form of the mounted step page changes
WizEdit(kind, patch) ==
    /\ StepsShown(wiz)
    /\ wiz.currentStep = PageOf(kind)
    /\ Spread(ConfigOf(wiz, kind), patch) # ConfigOf(wiz, kind)
    /\ wiz' = UpdateConfig(wiz, kind, patch)
    /\ UNCHANGED <<tests, adminPage, apiVars, serverVars, uploadVars, sliceVars>>

\* the form is submitted: onSubmit stores the values and starts the test;
\* the submit button is disabled while the page's mutation is pending
WizSubmit(kind) ==
    /\ StepsShown(wiz)
    /\ wiz.currentStep = PageOf(kind)
    /\ FormValid(kind, ConfigOf(wiz, kind))
    /\ \A t \in tests : t.kind = kind => ~t.live
    /\ Cardinality({t \in tests : t.kind = kind}) < MaxInFlight
    /\ wiz' = UpdateConfig(wiz, kind, ConfigOf(wiz, kind))
    /\ tests' = tests \cup {[kind |-> kind, live |-> TRUE,
                             config |-> TestPayload(kind, ConfigOf(wiz, kind))]}
    /\ UNCHANGED <<adminPage, apiVars, serverVars, uploadVars, sliceVars>>

\* a test answered success: true
WizTestOk(t) ==
    /\ t \in tests
    /\ tests' = tests \ {t}
    /\ wiz' = [SetTestPassed(wiz, t.kind, TRUE)
                  EXCEPT !.passed[t.kind] = @ \cup {t.config}]
    /\ UNCHANGED <<adminPage, apiVars, serverVars, uploadVars, sliceVars>>

\* a test answered success: false or the call failed
WizTestFail(t) ==
    /\ t \in tests
    /\ tests' = tests \ {t}
    /\ wiz' = SetTestPassed(wiz, t.kind, FALSE)
    /\ UNCHANGED <<adminPage, apiVars, serverVars, uploadVars, sliceVars>>

\* handleNext, then the mount effect of the next page
WizNext ==
    /\ StepsShown(wiz)
    /\ wiz.currentStep < LastStep
    /\ CanProceedToStep(wiz, wiz.currentStep + 1)
    /\ wiz' = [wiz EXCEPT !.currentStep = wiz.currentStep + 1]
    /\ tests' = Unmounted(tests)
    /\ UNCHANGED <<adminPage, apiVars, serverVars, uploadVars, sliceVars>>

\* handlePrevious, then the mount effect of the previous page
WizPrevious ==
    /\ StepsShown(wiz)
    /\ wiz.currentStep > 0
    /\ wiz' = [wiz EXCEPT !.currentStep = wiz.currentStep - 1]
    /\ tests' = Unmounted(tests)
    /\ UNCHANGED <<adminPage, apiVars, serverVars, uploadVars, sliceVars>>

\* the browser loads the URL of step p: a new SetupProvider, and the page of
\* the step mounts; callbacks of the earlier document are gone
WizLoad(p) ==
    /\ wiz' = LoadedWizard(p)
    /\ tests' = {}
    /\ UNCHANGED <<adminPage, apiVars, serverVars, uploadVars, sliceVars>>

\* a Finish that never refuses
FinishErrorNone(w) == "null"

\* the message handleFinish refuses with, "null" when it goes on
FinishError(w) ==
    IF ~w.postgresTestPassed
       THEN "Database connection test must pass before completing setup"
    ELSE IF ~w.oidcTestPassed
       THEN "Authentication configuration test must pass before completing setup"
    ELSE "null"

\* the body of setupSaveMutation.mutate
SaveBody(w) ==
    [postgresConfig |-> w.postgresConfig, oidcConfig |-> w.oidcConfig,
     atlasConfig |-> w.atlasConfig, brandingConfig |-> w.brandingConfig]

\* handleFinish; the button is shown on the last step and disabled while the
\* save mutation is pending
WizFinish ==
    /\ StepsShown(wiz)
    /\ wiz.currentStep = LastStep
    /\ wiz.save # "pending"
    /\ wiz' = IF FinishError(wiz) # "null"
                 THEN [wiz EXCEPT !.setupError = FinishError(wiz)]
                 ELSE [wiz EXCEPT !.setupError = "null", !.save = "pending",
                                  !.saveBody = <<SaveBody(wiz)>>]
    /\ UNCHANGED <<tests, adminPage, apiVars, serverVars, uploadVars, sliceVars>>

\* saveSetupConfig resolved: onSuccess sets setupComplete
WizSaveOk ==
    /\ wiz.save = "pending"
    /\ wiz' = [wiz EXCEPT !.save = "idle", !.saveBody = << >>, !.setupComplete = TRUE]
    /\ UNCHANGED <<tests, adminPage, apiVars, serverVars, uploadVars, sliceVars>>

\* saveSetupConfig rejected: onError sets setupError to the error's message
WizSaveFail ==
    /\ wiz.save = "pending"
    /\ wiz' = [wiz EXCEPT !.save = "idle", !.saveBody = << >>,
                          !.setupError = "Failed to save setup configuration"]
    /\ UNCHANGED <<tests, adminPage, apiVars, serverVars, uploadVars, sliceVars>>

\* Go Back on the Setup Failed screen
WizGoBack ==
    /\ wiz.setupError # "null"
    /\ ~wiz.setupComplete
    /\ wiz' = [wiz EXCEPT !.setupError = "null", !.setupComplete = FALSE]
    /\ UNCHANGED <<tests, adminPage, apiVars, serverVars, uploadVars, sliceVars>>

WizardInit ==
    /\ ServerParked
    /\ UploadParked
    /\ SliceParked
    /\ FrontParked

WizardNext ==
    \/ \E kind \in TestKinds : \E patch \in WizardEdits(kind) : WizEdit(kind, patch)
    \/ \E kind \in TestKinds : WizSubmit(kind)
    \/ \E t \in tests : WizTestOk(t)
    \/ \E t \in tests : WizTestFail(t)
    \/ WizNext
    \/ WizPrevious
    \/ \E p \in 0..LastStep : WizLoad(p)
    \/ WizFinish
    \/ WizSaveOk
    \/ WizSaveFail
    \/ WizGoBack

WizardSpec == WizardInit /\ [][WizardNext]_vars

\* C12: the wizard sends saveSetupConfig only in a state where
\* postgresTestPassed and oidcTestPassed are both true, with the
\* configuration it holds; a Finish with either flag false sets the setup
\* error message and sends nothing.
C12_FinishRequiresBothTests ==
    [][/\ (wiz'.save = "pending" /\ wiz.save # "pending") =>
              /\ wiz.postgresTestPassed
              /\ wiz.oidcTestPassed
              /\ wiz'.saveBody = <<SaveBody(wiz)>>
       /\ (WizFinish /\ ~(wiz.postgresTestPassed /\ wiz.oidcTestPassed)) =>
              /\ wiz'.setupError \in
                    {"Database connection test must pass before completing setup",
                     "Authentication configuration test must pass before completing setup"}
              /\ wiz'.save = wiz.save
              /\ wiz'.saveBody = wiz.saveBody]_vars

\* Finish was pressed with both tests passed and the request is in flight
C12_Witness ==
    /\ wiz.save = "pending"
    /\ wiz.saveBody # << >>
    /\ wiz.currentStep = LastStep

\* C13: in every reachable wizard state postgresTestPassed implies that the
\* postgresConfig the wizard holds is a configuration that was sent in a
\* connection test that succeeded, and oidcTestPassed the same for the
\* fields of oidcConfig the test sends, also when a test result arrives
\* after an edit.
C13_PassedMeansHeldConfigWasTested ==
    \A kind \in TestKinds :
        PassedOf(wiz, kind) =>
            TestPayload(kind, ConfigOf(wiz, kind)) \in wiz.passed[kind]

\* C14: currentStep stays within 0..4, currentStep >= 2 implies
\* postgresTestPassed, and currentStep >= 3 implies postgresTestPassed and
\* oidcTestPassed, in every wizard state reachable through Next, Previous,
\* form edits, test completions and the mounting of a step page.
C14_StepImpliesTestsPassed ==
    /\ wiz.currentStep \in 0..LastStep
    /\ wiz.currentStep >= 2 => wiz.postgresTestPassed
    /\ wiz.currentStep >= 3 => wiz.postgresTestPassed /\ wiz.oidcTestPassed

(***************************************************************************)
(* AdminPageSpec: the database, authentication and Atlas pages of the      *)
(* admin console (part_007, part_006, atlas-config.tsx): a form, a Test    *)
(* button and a Save button.                                               *)
(***************************************************************************)

MaxUpdates == 2

AdminPages == {"database", "auth", "atlas"}

\* the field of each form that getConfig does not return
SecretField(page) ==
    CASE page = "database" -> "password"
      [] page = "auth" -> "clientSecret"
      [] page = "atlas" -> "atlasApiKey"

\* the stored section the form is reset to once getConfig has answered
StoredSection(page) ==
    CASE page = "database" -> PostgresA
      [] page = "auth" -> OidcA
      [] page = "atlas" -> AtlasA

\* form.reset({...currentConfig section, secret: ""})
FormDefaults(page) ==
    Spread(StoredSection(page),
           [f \in {SecretField(page)} |-> ""])

\* what the administrator types into single fields
PageEdits(page) ==
    CASE page = "database" ->
            {[password |-> "pw-a"], [password |-> "pw-b"], [host |-> "db.internal"]}
      [] page = "auth" ->
            {[clientSecret |-> "cs-a"], [clientSecret |-> "cs-b"], [clientId |-> "cid-b"]}
      [] page = "atlas" ->
            {[atlasApiKey |-> "key-a"], [atlasApiKey |-> "key-b"],
             [atlasUrl |-> <<"http://", "atlas.local">>]}
      [] OTHER -> {}

\* zodResolver(databaseSchema / authSchema / atlasSchema): the secret has min(1)
PageFormValid(page, values) == values[SecretField(page)] # ""

\* what handleTest sends for the form's values
PageTestPayload(page, values) ==
    CASE page = "database" -> values
      [] page = "auth" ->
            Restrict(values, {"provider", "authorizationUrl", "tokenUrl",
                              "userInfoUrl", "clientId"})
      [] page = "atlas" ->
            [baseUrl |-> values.atlasUrl, apiKey |-> values.atlasApiKey]

\* testResult?.success
TestSucceeded(p) == p.testResult # << >> /\ p.testResult[1]

\* the page is mounted and getConfig has answered
PageOpen(page) ==
    /\ adminPage.open = "none"
    /\ adminPage' = [open |-> page, values |-> FormDefaults(page),
                     testResult |-> << >>, testing |-> << >>,
                     testStatus |-> "idle", passed |-> {},
                     updating |-> FALSE, updates |-> << >>, toast |-> "none"]
    /\ UNCHANGED <<apiVars, wizardVars, serverVars, uploadVars, sliceVars>>

\* field.onChange: the form's value changes; testResult is left as it is
PageEdit(patch) ==
    /\ adminPage.open # "none"
    /\ adminPage' = [adminPage EXCEPT !.values = Spread(@, patch)]
    /\ UNCHANGED <<apiVars, wizardVars, serverVars, uploadVars, sliceVars>>

\* the Test button: handleTest
PageTest ==
    /\ adminPage.open # "none"
    /\ adminPage.testing = << >>
    /\ PageFormValid(adminPage.open, adminPage.values)
    /\ adminPage' = [adminPage EXCEPT
                        !.testing = <<PageTestPayload(adminPage.open, adminPage.values)>>,
                        !.testStatus = "pending"]
    /\ UNCHANGED <<apiVars, wizardVars, serverVars, uploadVars, sliceVars>>

\* the test call resolved: onSuccess stores the answer
PageTestAnswer(success) ==
    /\ adminPage.open # "none"
    /\ adminPage.testing # << >>
    /\ adminPage' = [adminPage EXCEPT
                        !.testResult = <<success>>,
                        !.testing = << >>,
                        !.testStatus = "success",
                        !.passed = IF success THEN @ \cup {adminPage.testing[1]} ELSE @,
                        !.toast = IF success THEN "Test Successful" ELSE "Test Failed"]
    /\ UNCHANGED <<apiVars, wizardVars, serverVars, uploadVars, sliceVars>>

\* the test call rejected: the mutation has no onError
PageTestError ==
    /\ adminPage.open # "none"
    /\ adminPage.testing # << >>
    /\ adminPage' = [adminPage EXCEPT !.testing = << >>, !.testStatus = "error"]
    /\ UNCHANGED <<apiVars, wizardVars, serverVars, uploadVars, sliceVars>>

\* the form is submitted (Save button or Enter in a field): onSubmit
PageSubmit ==
    /\ adminPage.open # "none"
    /\ PageFormValid(adminPage.open, adminPage.values)
    /\ ~adminPage.updating
    /\ Len(adminPage.updates) < MaxUpdates
    /\ adminPage' = IF TestSucceeded(adminPage)
                       THEN [adminPage EXCEPT !.updating = TRUE,
                                              !.updates = Append(@, adminPage.values)]
                       ELSE [adminPage EXCEPT !.toast = "Test Required"]
    /\ UNCHANGED <<apiVars, wizardVars, serverVars, uploadVars, sliceVars>>

\* the update call settled: form.reset(form.getValues()) or the error toast
PageUpdateSettled(ok) ==
    /\ adminPage.open # "none"
    /\ adminPage.updating
    /\ adminPage' = [adminPage EXCEPT
                        !.updating = FALSE,
                        !.toast = IF ok THEN "Configuration Updated" ELSE "Update Failed"]
    /\ UNCHANGED <<apiVars, wizardVars, serverVars, uploadVars, sliceVars>>

AdminPageInit ==
    /\ ServerParked
    /\ UploadParked
    /\ SliceParked
    /\ FrontParked

AdminPageNext ==
    \/ \E page \in AdminPages : PageOpen(page)
    \/ \E patch \in PageEdits(adminPage.open) : PageEdit(patch)
    \/ PageTest
    \/ \E success \in BOOLEAN : PageTestAnswer(success)
    \/ PageTestError
    \/ PageSubmit
    \/ \E ok \in BOOLEAN : PageUpdateSettled(ok)

AdminPageSpec == AdminPageInit /\ [][AdminPageNext]_vars

\* C18: the admin database, authentication and Atlas pages send an update
\* only for form values that passed the connection test.
C18_UpdatesWereTested ==
    adminPage.open # "none" =>
        \A i \in 1..Len(adminPage.updates) :
            PageTestPayload(adminPage.open, adminPage.updates[i]) \in adminPage.passed

====
